---- MODULE Spec2Model ----
(***************************************************************************)
(* Model of the guardrails validation service: app/config.py               *)
(* (ValidatorConfig), app/validators.py (GuardrailValidator) and the       *)
(* /validate endpoint of app/main.py.                                      *)
(*                                                                         *)
(* One request is processed at a time (the endpoint is an `async def`      *)
(* without any await, so the event loop runs a handler to its end before   *)
(* it starts the next one).  A request is modelled at the granularity of   *)
(* the loop iterations of validate_all_configs and validate_text.          *)
(***************************************************************************)
EXTENDS Integers, Sequences, FiniteSets, TLC

\* ------------------------------------------------------------------ bounds
MaxGuardrails == 2      \* longest guardrail list of a request
MaxThreads == 2         \* calls of _load_validator_class in progress at once

\* ------------------------------------------------- app/config.py (static)
\* Python's None, the empty message "" and the OnFailAction.EXCEPTION member.
None == [kind |-> "None"]
EmptyStr == [kind |-> ""]
OnFailAction_EXCEPTION == "exception"

\* ValidatorConfig.REQUIRED_CONFIGS: validator name -> required parameter keys.
REQUIRED_CONFIGS ==
  [ RegexMatch |-> {"regex"},
    CompetitorCheck |-> {"competitors"},
    ToxicLanguage |-> {"threshold", "validation_method"},
    RestrictToTopic |-> {"valid_topics"},
    ReadingTime |-> {"max_time"},
    DetectPII |-> {},
    ExcludeSqlPredicates |-> {},
    ValidLength |-> {"min", "max"},
    ValidRange |-> {"min", "max"},
    ValidChoices |-> {"choices"},
    BugFreePython |-> {},
    BugFreeSQL |-> {},
    ExtractedSummarySentencesMatch |-> {},
    IsHighQualityTranslation |-> {},
    LowerCase |-> {},
    OneLine |-> {},
    TwoWords |-> {},
    UpperCase |-> {},
    ValidURL |-> {},
    SimilarToDocument |-> {"document", "threshold"},
    SimilarToList |-> {"standard_list", "threshold"},
    Provenance |-> {"validation_method"},
    ValidJson |-> {},
    SecretsPresent |-> {},
    ToxicityMetrics |-> {} ]

\* ValidatorConfig.get_required_configs: REQUIRED_CONFIGS.get(name, set()).
get_required_configs(validator_name) ==
  IF validator_name \in DOMAIN REQUIRED_CONFIGS
    THEN REQUIRED_CONFIGS[validator_name]
    ELSE {}

\* Every parameter key the table mentions, in one fixed enumeration.  A Python
\* set iterates in an order fixed by the process's string hash seed; the two
\* seeds of the model enumerate every set in this order and in its reverse, which
\* yields both orders of every two-key set (no entry of the table has more).
KeyEnum ==
  << "choices", "competitors", "document", "max", "max_time", "min", "regex",
     "standard_list", "threshold", "valid_topics", "validation_method" >>

HashSeeds == {0, 1}

KeyRank(seed, k) ==
  LET i == CHOOSE j \in 1..Len(KeyEnum) : KeyEnum[j] = k
  IN  IF seed = 0 THEN i ELSE Len(KeyEnum) + 1 - i

\* Iteration of a set of keys: the sequence of its elements in hash order.
RECURSIVE IterSet(_, _)
IterSet(seed, S) ==
  IF S = {} THEN << >>
  ELSE LET first == CHOOSE k \in S : \A o \in S : KeyRank(seed, k) <= KeyRank(seed, o)
       IN  << first >> \o IterSet(seed, S \ {first})

\* validate_config reporting only the first missing key it meets.
validate_config_first_missing_only(seed, validator_name, config) ==
  LET required == IF validator_name \in DOMAIN REQUIRED_CONFIGS
                    THEN REQUIRED_CONFIGS[validator_name] ELSE {}
      missing == required \ DOMAIN config
  IN  IF missing # {}
        THEN << FALSE, [kind |-> "missing_required",
                        keys |-> << IterSet(seed, missing)[1] >>] >>
        ELSE << TRUE, [kind |-> ""] >>

\* ValidatorConfig.validate_config: (is_valid, error_message).  A dict is a
\* function from its keys to its values; the message
\* "Missing required configuration parameters: " + ', '.join(missing) is the
\* record of its kind and of the joined keys.
MissingMsg(keys) == [kind |-> "missing_required", keys |-> keys]

validate_config(seed, validator_name, config) ==
  LET required == get_required_configs(validator_name)
      missing == required \ DOMAIN config
  IN  IF required = {} THEN << TRUE, EmptyStr >>
      ELSE IF missing # {} THEN << FALSE, MissingMsg(IterSet(seed, missing)) >>
      ELSE << TRUE, EmptyStr >>

\* --------------------------------------- app/validators.py: the registry
\* The validator names requests use: one with required parameters in the table
\* and one the table does not mention.
ReqNames == {"ValidLength", "NSFWText"}

\* The characters of a name (TLC cannot index a string).
NameChars ==
  [ ValidLength |-> << "V", "a", "l", "i", "d", "L", "e", "n", "g", "t", "h" >>,
    NSFWText |-> << "N", "S", "F", "W", "T", "e", "x", "t" >> ]

UpperChars ==
  { "A", "B", "C", "D", "E", "F", "G", "H", "I", "J", "K", "L", "M",
    "N", "O", "P", "Q", "R", "S", "T", "U", "V", "W", "X", "Y", "Z" }
LowerChars ==
  { "a", "b", "c", "d", "e", "f", "g", "h", "i", "j", "k", "l", "m",
    "n", "o", "p", "q", "r", "s", "t", "u", "v", "w", "x", "y", "z" }
DigitChars == { "0", "1", "2", "3", "4", "5", "6", "7", "8", "9" }

\* str.lower() on one character.
LowerOf(c) ==
  LET up  == << "A", "B", "C", "D", "E", "F", "G", "H", "I", "J", "K", "L", "M",
                "N", "O", "P", "Q", "R", "S", "T", "U", "V", "W", "X", "Y", "Z" >>
      low == << "a", "b", "c", "d", "e", "f", "g", "h", "i", "j", "k", "l", "m",
                "n", "o", "p", "q", "r", "s", "t", "u", "v", "w", "x", "y", "z" >>
  IN  IF c \in UpperChars THEN low[CHOOSE i \in 1..Len(up) : up[i] = c] ELSE c

\* The end of the greedy run [a-z]+ that starts at position i of s.
RECURSIVE LowerRunEnd(_, _)
LowerRunEnd(s, i) ==
  IF i + 1 <= Len(s) /\ s[i + 1] \in LowerChars THEN LowerRunEnd(s, i + 1) ELSE i

\* re.sub('(.)([A-Z][a-z]+)', r'\1_\2', name), scanning from position i.
RECURSIVE SubCapWord(_, _)
SubCapWord(s, i) ==
  IF i > Len(s) THEN << >>
  ELSE IF i + 2 <= Len(s) /\ s[i + 1] \in UpperChars /\ s[i + 2] \in LowerChars
    THEN LET j == LowerRunEnd(s, i + 2)
         IN  << s[i], "_" >> \o SubSeq(s, i + 1, j) \o SubCapWord(s, j + 1)
    ELSE << s[i] >> \o SubCapWord(s, i + 1)

\* re.sub('([a-z0-9])([A-Z])', r'\1_\2', name), scanning from position i.
RECURSIVE SubLowerUpper(_, _)
SubLowerUpper(s, i) ==
  IF i > Len(s) THEN << >>
  ELSE IF i + 1 <= Len(s) /\ s[i] \in LowerChars \cup DigitChars /\ s[i + 1] \in UpperChars
    THEN << s[i], "_", s[i + 1] >> \o SubLowerUpper(s, i + 2)
    ELSE << s[i] >> \o SubLowerUpper(s, i + 1)

\* GuardrailValidator._camel_to_snake, on the characters of the name.
_camel_to_snake(chars) ==
  LET t == SubLowerUpper(SubCapWord(chars, 1), 1)
  IN  [i \in 1..Len(t) |-> LowerOf(t[i])]

\* The external catalog (guardrails.hub) is two sets: the names that are
\* attributes of the package guardrails.hub, and the (module, attribute) pairs
\* of its importable submodules.  A lookup yields a class or nothing; the class
\* found is identified by its name and the place it was found in.
HubClass(validator_name) == [name |-> validator_name, module |-> << "guardrails.hub" >>]
ModuleClass(module_name, validator_name) ==
  [name |-> validator_name, module |-> << "guardrails.hub", module_name >>]

\* importlib.import_module("guardrails.hub"); getattr(hub_module, name, None)
getattr_hub(attrs, validator_name) ==
  IF validator_name \in attrs THEN HubClass(validator_name) ELSE None

\* importlib.import_module(f"guardrails.hub.{module_name}"); getattr(module, name, None)
getattr_module(modules, module_name, validator_name) ==
  IF << module_name, validator_name >> \in modules
    THEN ModuleClass(module_name, validator_name)
    ELSE None

\* _load_validator_class without its `if validator_name in self.validator_cache`.
_load_validator_class_no_cache_check(cache, attrs, modules, validator_name) ==
  IF validator_name \in attrs
    THEN [result |-> HubClass(validator_name),
          cache |-> (validator_name :> HubClass(validator_name)) @@ cache,
          calls |-> << "guardrails.hub" >>]
  ELSE LET module_name == _camel_to_snake(NameChars[validator_name])
       IN  IF << module_name, validator_name >> \in modules
             THEN [result |-> ModuleClass(module_name, validator_name),
                   cache |-> (validator_name :> ModuleClass(module_name, validator_name))
                               @@ cache,
                   calls |-> << "guardrails.hub", "guardrails.hub.module" >>]
             ELSE [result |-> None, cache |-> cache,
                   calls |-> << "guardrails.hub", "guardrails.hub.module" >>]

\* _load_validator_class without its two stores into the cache.
_load_validator_class_without_store(cache, attrs, modules, validator_name) ==
  [_load_validator_class_no_cache_check(cache, attrs, modules, validator_name)
     EXCEPT !.cache = cache,
            !.result = IF validator_name \in DOMAIN cache THEN cache[validator_name] ELSE @,
            !.calls = IF validator_name \in DOMAIN cache THEN << >> ELSE @]

\* _load_validator_class storing what it returns, None included.
_load_validator_class_memoizing_none(cache, attrs, modules, validator_name) ==
  IF validator_name \in DOMAIN cache
    THEN [result |-> cache[validator_name], cache |-> cache, calls |-> << >>]
    ELSE [_load_validator_class_no_cache_check(cache, attrs, modules, validator_name)
            EXCEPT !.cache =
              [n \in DOMAIN cache \cup {validator_name} |->
                 IF n = validator_name
                   THEN _load_validator_class_no_cache_check(cache, attrs, modules,
                                                             validator_name).result
                   ELSE cache[n]]]

\* _load_validator_class with its two try blocks in the other order.
_load_validator_class_module_first(cache, attrs, modules, validator_name) ==
  IF validator_name \in DOMAIN cache
    THEN [result |-> cache[validator_name], cache |-> cache, calls |-> << >>]
  ELSE IF << _camel_to_snake(NameChars[validator_name]), validator_name >> \in modules
    THEN [result |-> ModuleClass(_camel_to_snake(NameChars[validator_name]), validator_name),
          cache |-> (validator_name :>
                       ModuleClass(_camel_to_snake(NameChars[validator_name]), validator_name))
                    @@ cache,
          calls |-> << "guardrails.hub.module" >>]
  ELSE IF validator_name \in attrs
    THEN [result |-> HubClass(validator_name),
          cache |-> (validator_name :> HubClass(validator_name)) @@ cache,
          calls |-> << "guardrails.hub.module", "guardrails.hub" >>]
  ELSE [result |-> None, cache |-> cache,
        calls |-> << "guardrails.hub.module", "guardrails.hub" >>]

\* A cache hit that reads the cache with a key that is not in it.
_load_validator_class_hit_returns_none(cache, attrs, modules, validator_name) ==
  IF validator_name \in DOMAIN cache
    THEN [result |-> None, cache |-> cache, calls |-> << >>]
    ELSE _load_validator_class_no_cache_check(cache, attrs, modules, validator_name)

\* GuardrailValidator._load_validator_class: the value returned, the cache
\* after the call and the catalog calls made, in order.
_load_validator_class(cache, attrs, modules, validator_name) ==
  IF validator_name \in DOMAIN cache
    THEN [result |-> cache[validator_name], cache |-> cache, calls |-> << >>]
  ELSE LET from_hub == getattr_hub(attrs, validator_name)
       IN  IF from_hub # None
             THEN [result |-> from_hub,
                   cache |-> (validator_name :> from_hub) @@ cache,
                   calls |-> << "guardrails.hub" >>]
           ELSE LET module_name == _camel_to_snake(NameChars[validator_name])
                    from_module == getattr_module(modules, module_name, validator_name)
                IN  IF from_module # None
                      THEN [result |-> from_module,
                            cache |-> (validator_name :> from_module) @@ cache,
                            calls |-> << "guardrails.hub", "guardrails.hub.module" >>]
                      ELSE [result |-> None,
                            cache |-> cache,
                            calls |-> << "guardrails.hub", "guardrails.hub.module" >>]

\* The message of validate_guardrail_config when the class is not found.
NotInstalledMsg(validator_name) == [kind |-> "not_installed", name |-> validator_name]

\* validate_guardrail_config without its `if validator_class is None` return.
validate_guardrail_config_no_lookup_check(seed, validator_class, guardrail) ==
  validate_config(seed, guardrail.name, guardrail.config)

\* GuardrailValidator.validate_guardrail_config, given the result of the
\* lookup it starts with: (is_valid, error_message).
validate_guardrail_config(seed, validator_class, guardrail) ==
  IF validator_class = None
    THEN << FALSE, NotInstalledMsg(guardrail.name) >>
    ELSE validate_config(seed, guardrail.name, guardrail.config)

\* f"{guardrail.name}: {error_msg}", an entry of the list validate_all_configs returns.
ConfigError(guardrail_name, error_msg) == [name |-> guardrail_name, msg |-> error_msg]

\* ------------------------------------------------------ requests (inputs)
\* A dict over keys K with values in V: a function from a subset of K.
ConfigsOver(K, V) == UNION { [S -> V] : S \in SUBSET K }

\* The config dicts requests use: the empty one and one that holds every key
\* ValidLength requires.
ReqKeys == {"min", "max"}
ReqConfigs == { [k \in {} |-> "a"], [k \in ReqKeys |-> "a"] }

\* GuardrailConfig (app/models.py): a validator name and its config dict.
GuardrailConfig == [name : ReqNames, config : ReqConfigs]

\* ValidationRequest.guardrails: a list of at least one GuardrailConfig.
GuardrailLists == UNION { [1..n -> GuardrailConfig] : n \in 1..MaxGuardrails }

\* ValidationRequest.text: a non-empty text.
Texts == {"Call me at 123-456-7890"}

\* The module of guardrails.hub that defines each name when it is installed
\* as a module of its own: guardrails/hub/valid_length.py, guardrails/hub/nsfw_text.py.
ModuleFiles ==
  [ ValidLength |-> << "v", "a", "l", "i", "d", "_", "l", "e", "n", "g", "t", "h" >>,
    NSFWText |-> << "n", "s", "f", "w", "_", "t", "e", "x", "t" >> ]

\* The hub at process start exports one of the names from the package itself
\* (the other one is not installed yet); the modules below are what may be
\* installed later for the names of the model.
HubAttrs == { {n} : n \in ReqNames }
HubModules == { << ModuleFiles[n], n >> : n \in ReqNames }

\* ------------------------------------------------------------------ state
VARIABLES
  hash_seed,          \* the process's string hash seed (fixes set iteration order)
  hub_attrs,          \* external catalog: attributes of guardrails.hub
  hub_modules,        \* external catalog: (module, attribute) pairs under guardrails.hub
  validator_cache,    \* GuardrailValidator.validator_cache
  phase,              \* "Idle", "PreChecking", "Rejected", "Executing", "Completed",
                      \* "InternalError"
  text,               \* request.text
  guardrails,         \* request.guardrails
  idx,                \* position of the running loop (1-based)
  errors,             \* validate_all_configs: errors
  prechecked,         \* what the lookup of each pre-checked position returned
  failed_guardrails,  \* validate_text: failed_guardrails
  outcomes,           \* the outcome of each position validate_text has processed
  inv,                \* what the last iteration of validate_text did
  lookup,             \* the last call of _load_validator_class
  resolved,           \* name -> the class its first successful lookup returned
  unresolved,         \* the names a lookup has returned None for
  response,           \* the HTTP response of the request
  cfg_in,             \* arguments of a direct call of validate_config
  cfg_out,            \* its result
  body,               \* arguments and result of one iteration of validate_text
  idem,               \* a resubmitted request: its input, behaviour and first response
  lk,                 \* the position of each interleaved _load_validator_class call
  deadline_at         \* the loop position at which the caller's deadline passed

vars ==
  << hash_seed, hub_attrs, hub_modules, validator_cache, phase,
     text, guardrails, idx, errors, prechecked, failed_guardrails, outcomes, inv, lookup,
     resolved, unresolved, response, cfg_in, cfg_out, body, idem, lk, deadline_at >>

catalog_vars == << hub_attrs, hub_modules >>
request_vars == << text, guardrails >>
cfg_vars == << cfg_in, cfg_out >>
side_vars == << cfg_in, cfg_out, body, idem, lk, deadline_at >>

NoFunction == [n \in {} |-> None]
NoLookup == [phase |-> "", idx |-> 0, name |-> "", result |-> None, calls |-> << >>]
NoInvocation == [constructs |-> 0, on_fail |-> "", executed |-> FALSE]
NoResponse == [status |-> 0]
NoCfg == [kind |-> "none"]
NoBody == [kind |-> "none"]
NoIdem == [kind |-> "none"]
NoThreads == << >>

\* The status codes of the handler: a returned ValidationResponse, and the two
\* HTTPExceptions it raises.
HTTP_200_OK == 200
HTTP_400_BAD_REQUEST == 400
HTTP_500_INTERNAL_SERVER_ERROR == 500

\* The process after `guardrail_validator = GuardrailValidator()`: an empty
\* cache, no request yet, and whatever is installed in the hub.
Init ==
  /\ hash_seed \in HashSeeds
  /\ hub_attrs \in HubAttrs
  /\ hub_modules = {}
  /\ validator_cache = NoFunction
  /\ phase = "Idle"
  /\ text = ""
  /\ guardrails = << >>
  /\ idx = 0
  /\ errors = << >>
  /\ prechecked = << >>
  /\ failed_guardrails = << >>
  /\ outcomes = << >>
  /\ inv = NoInvocation
  /\ lookup = NoLookup
  /\ resolved = NoFunction
  /\ unresolved = {}
  /\ response = NoResponse
  /\ cfg_in = NoCfg
  /\ cfg_out = NoCfg
  /\ body = NoBody
  /\ idem = NoIdem
  /\ lk = NoThreads
  /\ deadline_at = 0

\* What a call of _load_validator_class leaves behind (cache, last lookup and
\* the history of lookup results).
Looked(L, validator_name) ==
  /\ validator_cache' = L.cache
  /\ lookup' = [phase |-> phase, idx |-> idx, name |-> validator_name,
                 result |-> L.result, calls |-> L.calls]
  /\ resolved' =
       IF L.result # None /\ validator_name \notin DOMAIN resolved
         THEN (validator_name :> L.result) @@ resolved
         ELSE resolved
  /\ unresolved' =
       IF L.result = None THEN unresolved \cup {validator_name} ELSE unresolved

\* A validator is installed into the hub while the process runs (a submodule of
\* guardrails.hub becomes importable).
InstallValidator ==
  /\ \E m \in HubModules \ hub_modules : hub_modules' = hub_modules \cup {m}
  /\ UNCHANGED << hash_seed, hub_attrs, validator_cache, phase, text,
                  guardrails, idx, errors, prechecked, failed_guardrails, outcomes, inv,
                  lookup, resolved, unresolved, response, side_vars >>

\* POST /validate arrives: the handler starts validate_all_configs.
Submit(t, g) ==
  /\ phase = "Idle"
  /\ text' = t
  /\ guardrails' = g
  /\ phase' = "PreChecking"
  /\ idx' = 1
  /\ errors' = << >>
  /\ prechecked' = << >>
  /\ failed_guardrails' = << >>
  /\ outcomes' = << >>
  /\ inv' = NoInvocation
  /\ lookup' = NoLookup
  /\ response' = NoResponse
  /\ UNCHANGED << hash_seed, catalog_vars, validator_cache, resolved, unresolved >>

StartRequest ==
  /\ \E t \in Texts, g \in GuardrailLists : Submit(t, g)
  /\ UNCHANGED side_vars

\* A loop of validate_all_configs that puts each new error at the front.
PreCheckStep_inserting_at_front ==
  /\ phase = "PreChecking"
  /\ idx <= Len(guardrails)
  /\ LET guardrail == guardrails[idx]
         L == _load_validator_class(validator_cache, hub_attrs, hub_modules, guardrail.name)
         r == validate_guardrail_config(hash_seed, L.result, guardrail)
     IN  /\ Looked(L, guardrail.name)
         /\ errors' = IF r[1] THEN errors
                      ELSE << [name |-> guardrail.name, msg |-> r[2]] >> \o errors
         /\ prechecked' = Append(prechecked, L.result)
  /\ idx' = idx + 1
  /\ UNCHANGED << hash_seed, hub_attrs, hub_modules, phase, text, guardrails,
                  failed_guardrails, outcomes, inv, response,
                  cfg_in, cfg_out, body, idem, lk, deadline_at >>

\* One iteration of the loop of validate_all_configs.
PreCheckStep ==
  /\ phase = "PreChecking"
  /\ idx <= Len(guardrails)
  /\ LET guardrail == guardrails[idx]
         L == _load_validator_class(validator_cache, hub_attrs, hub_modules, guardrail.name)
         r == validate_guardrail_config(hash_seed, L.result, guardrail)
     IN  /\ Looked(L, guardrail.name)
         /\ errors' = IF r[1] THEN errors
                      ELSE Append(errors, ConfigError(guardrail.name, r[2]))
         /\ prechecked' = Append(prechecked, L.result)
  /\ idx' = idx + 1
  /\ UNCHANGED << hash_seed, catalog_vars, phase, request_vars,
                  failed_guardrails, outcomes, inv, response, side_vars >>

\* ------------------------------------------- app/main.py: validate_text
\* The two HTTPExceptions of the handler, as the responses
\* http_exception_handler makes of them.
InvalidConfigurationResponse(config_errors) ==
  [status |-> HTTP_400_BAD_REQUEST,
   message |-> "Invalid guardrail configuration(s)",
   errors |-> config_errors]

InternalErrorResponse(e) ==
  [status |-> HTTP_500_INTERNAL_SERVER_ERROR,
   message |-> "Internal server error during validation",
   error |-> [kind |-> "str", of |-> e]]

\* An exception raised inside the handler's try block.
HTTPException(r) == [class |-> "HTTPException", response |-> r]
OtherException(e) == [class |-> "Exception", e |-> e]

\* A handler without `except HTTPException: raise`: its own 400 falls in
\* `except Exception` too.
handler_except_without_reraise(exc) ==
  InternalErrorResponse(IF exc.class = "HTTPException" THEN exc.response ELSE exc.e)

\* The except clauses of the handler: an HTTPException is re-raised as it is,
\* any other exception becomes the 500.
handler_except(exc) ==
  IF exc.class = "HTTPException" THEN exc.response
  ELSE InternalErrorResponse(exc.e)

\* validate_all_configs returns (len(errors) == 0, errors); the handler raises
\* the 400 or goes on to validate_text.
PreCheckDone ==
  /\ phase = "PreChecking"
  /\ idx > Len(guardrails)
  /\ IF Len(errors) = 0
       THEN /\ phase' = "Executing"
            /\ idx' = 1
            /\ response' = response
       ELSE /\ phase' = "Rejected"
            /\ idx' = idx
            /\ response' = handler_except(HTTPException(InvalidConfigurationResponse(errors)))
  /\ UNCHANGED << hash_seed, catalog_vars, validator_cache, request_vars,
                  errors, prechecked, failed_guardrails, outcomes, inv, lookup,
                  resolved, unresolved, side_vars >>

\* ------------------------------------ app/validators.py: validate_text
\* What the external calls of one loop iteration do.  Each call returns ("ok")
\* or raises; an exception is named by the handler class it falls in:
\* TypeError, guardrails.errors.ValidationError, or any other Exception.
\* "-" stands for a call the iteration does not reach.
OuterRaises == {"ValidationError", "Exception"}
CtorRaises == {"TypeError"} \cup OuterRaises
InnerRaises == {"Exception"}

Unreached ==
  [guard |-> "-", ctor |-> "-", retry |-> "-", has_on_fail |-> "-",
   set_on_fail |-> "-", use |-> "-", validate |-> "-"]

\* guard.use(validator_instance) and guard.validate(text).
UseAndValidate ==
  { [use |-> u, validate |-> "-"] : u \in OuterRaises }
    \cup { [use |-> "ok", validate |-> v] : v \in {"ok"} \cup OuterRaises }

Scripts ==
  { [Unreached EXCEPT !.guard = e] : e \in OuterRaises }
    \cup { [Unreached EXCEPT !.guard = "ok", !.ctor = e] : e \in OuterRaises }
    \cup { [Unreached EXCEPT !.guard = "ok", !.ctor = "TypeError", !.retry = e] :
             e \in InnerRaises }
    \cup { [Unreached EXCEPT !.guard = "ok", !.ctor = "TypeError", !.retry = "ok",
                             !.has_on_fail = TRUE, !.set_on_fail = e] :
             e \in InnerRaises }
    \cup { [Unreached EXCEPT !.guard = "ok", !.ctor = "ok",
                             !.use = t.use, !.validate = t.validate] :
             t \in UseAndValidate }
    \cup { [Unreached EXCEPT !.guard = "ok", !.ctor = "TypeError", !.retry = "ok",
                             !.has_on_fail = FALSE,
                             !.use = t.use, !.validate = t.validate] :
             t \in UseAndValidate }
    \cup { [Unreached EXCEPT !.guard = "ok", !.ctor = "TypeError", !.retry = "ok",
                             !.has_on_fail = TRUE, !.set_on_fail = "ok",
                             !.use = t.use, !.validate = t.validate] :
             t \in UseAndValidate }

\* str(e) of a raised exception.
StrOf(e) == [kind |-> "str", of |-> e]

\* FailedGuardrail(name=..., error=...) and the four messages of validate_text.
FailedGuardrail(guardrail_name, error) == [name |-> guardrail_name, error |-> error]
NotFoundMsg(guardrail_name) == [kind |-> "not_found", name |-> guardrail_name]
InitErrorMsg(e) == [kind |-> "init_error", detail |-> StrOf(e)]
UnexpectedMsg(e) == [kind |-> "unexpected", detail |-> StrOf(e)]

\* The result of one loop iteration: the outcome, the entry appended to
\* failed_guardrails (None when nothing is appended), and what was done.  The
\* outcome "Raised" is an exception no handler of the loop body catches; its
\* entry is then the exception.
Iteration(kind, entry, L, constructs, on_fail, executed) ==
  [kind |-> kind, entry |-> entry, L |-> L,
   inv |-> [constructs |-> constructs, on_fail |-> on_fail, executed |-> executed]]

\* The outer try with an `except Exception` handler that records nothing.
Caught_swallowing(e, guardrail, L, constructs, on_fail, executed) ==
  IF e = "ValidationError"
    THEN [kind |-> "Failed", entry |-> [name |-> guardrail.name, error |-> [kind |-> "str", of |-> e]],
          L |-> L,
          inv |-> [constructs |-> constructs, on_fail |-> on_fail, executed |-> executed]]
    ELSE [kind |-> "UnexpectedError", entry |-> None, L |-> L,
          inv |-> [constructs |-> constructs, on_fail |-> on_fail, executed |-> executed]]

\* The outer try without its `except Exception` handler.
Caught_validation_only(e, guardrail, L, constructs, on_fail, executed) ==
  IF e = "ValidationError"
    THEN [kind |-> "Failed", entry |-> [name |-> guardrail.name, error |-> [kind |-> "str", of |-> e]],
          L |-> L,
          inv |-> [constructs |-> constructs, on_fail |-> on_fail, executed |-> executed]]
    ELSE [kind |-> "Raised", entry |-> e, L |-> L,
          inv |-> [constructs |-> constructs, on_fail |-> on_fail, executed |-> executed]]

\* The two handlers of the outer try: `except ValidationError` and
\* `except Exception`.
Caught(e, guardrail, L, constructs, on_fail, executed) ==
  IF e = "ValidationError"
    THEN Iteration("Failed", FailedGuardrail(guardrail.name, StrOf(e)),
                   L, constructs, on_fail, executed)
    ELSE Iteration("UnexpectedError", FailedGuardrail(guardrail.name, UnexpectedMsg(e)),
                   L, constructs, on_fail, executed)

\* guard.use(validator_instance); guard.validate(text)
use_and_validate(s, guardrail, L, constructs, on_fail) ==
  IF s.use # "ok" THEN Caught(s.use, guardrail, L, constructs, on_fail, FALSE)
  ELSE IF s.validate # "ok" THEN Caught(s.validate, guardrail, L, constructs, on_fail, TRUE)
  ELSE Iteration("Passed", None, L, constructs, on_fail, TRUE)

\* The inner try of the `except TypeError` handler: construct again without
\* on_fail and set on_fail on the instance if it has the attribute.
retry_without_on_fail(s, guardrail, L) ==
  IF s.retry # "ok"
    THEN Iteration("ConstructionError",
                   FailedGuardrail(guardrail.name, InitErrorMsg(s.retry)),
                   L, 2, "", FALSE)
  ELSE IF s.has_on_fail = TRUE
    THEN IF s.set_on_fail # "ok"
           THEN Iteration("ConstructionError",
                          FailedGuardrail(guardrail.name, InitErrorMsg(s.set_on_fail)),
                          L, 2, "", FALSE)
           ELSE use_and_validate(s, guardrail, L, 2, OnFailAction_EXCEPTION)
  ELSE use_and_validate(s, guardrail, L, 2, "")

\* The body of the loop of validate_text for one guardrail_config, with the
\* external calls behaving as the script s says.  L is the call of
\* _load_validator_class the body makes (None when Guard() raised before it).
loop_body(cache, attrs, modules, guardrail, s) ==
  IF s.guard # "ok"
    THEN Caught(s.guard, guardrail, None, 0, "", FALSE)
  ELSE LET L == _load_validator_class(cache, attrs, modules, guardrail.name)
       IN  IF L.result = None
             THEN Iteration("NotFound",
                            FailedGuardrail(guardrail.name, NotFoundMsg(guardrail.name)),
                            L, 0, "", FALSE)
           ELSE IF s.ctor = "ok"
             THEN use_and_validate(s, guardrail, L, 1, OnFailAction_EXCEPTION)
           ELSE IF s.ctor = "TypeError"
             THEN retry_without_on_fail(s, guardrail, L)
           ELSE Caught(s.ctor, guardrail, L, 1, "", FALSE)

\* failed_guardrails.insert(0, entry) in place of append.
append_failed_at_front(failed, entry) == << entry >> \o failed

\* failed_guardrails.append(entry)
append_failed(failed, entry) == Append(failed, entry)

\* One iteration of the loop of validate_text, its external calls behaving
\* as the script s says.
Iterate(s) ==
  /\ phase = "Executing"
  /\ idx <= Len(guardrails)
  /\ LET guardrail == guardrails[idx]
         it == loop_body(validator_cache, hub_attrs, hub_modules, guardrail, s)
     IN    /\ IF it.L = None
                THEN UNCHANGED << validator_cache, lookup, resolved, unresolved >>
                ELSE Looked(it.L, guardrail.name)
           /\ inv' = it.inv
           /\ IF it.kind = "Raised"
                THEN \* the exception leaves validate_text: `except Exception` of the handler
                     /\ phase' = "InternalError"
                     /\ response' = handler_except(OtherException(it.entry))
                     /\ UNCHANGED << idx, failed_guardrails, outcomes >>
                ELSE /\ failed_guardrails' =
                          IF it.entry = None THEN failed_guardrails
                          ELSE append_failed(failed_guardrails, it.entry)
                     /\ outcomes' = Append(outcomes, [pos |-> idx, name |-> guardrail.name,
                                                       kind |-> it.kind])
                     /\ idx' = idx + 1
                     /\ UNCHANGED << phase, response >>
  /\ UNCHANGED << hash_seed, catalog_vars, request_vars, errors, prechecked >>

ExecStep ==
  /\ \E s \in Scripts : Iterate(s)
  /\ UNCHANGED side_vars

\* all_passed with an off-by-one comparison.
all_passed_off_by_one(failed) == Len(failed) <= 1

\* validate_text returns (len(failed_guardrails) == 0, failed_guardrails) and
\* the handler returns the ValidationResponse.
all_passed(failed) == Len(failed) = 0

\* A loop that stops at the first failure it records.
ValidateTextReturn_at_first_failure ==
  /\ phase = "Executing"
  /\ idx > Len(guardrails) \/ Len(failed_guardrails) > 0
  /\ phase' = "Completed"
  /\ response' = [status |-> HTTP_200_OK,
                  passed |-> all_passed(failed_guardrails),
                  failed_guardrails |-> failed_guardrails]
  /\ UNCHANGED << hash_seed, catalog_vars, validator_cache, request_vars,
                  idx, errors, prechecked, failed_guardrails, outcomes, inv, lookup,
                  resolved, unresolved, side_vars >>

ValidateTextReturn ==
  /\ phase = "Executing"
  /\ idx > Len(guardrails)
  /\ phase' = "Completed"
  /\ response' = [status |-> HTTP_200_OK,
                  passed |-> all_passed(failed_guardrails),
                  failed_guardrails |-> failed_guardrails]
  /\ UNCHANGED << hash_seed, catalog_vars, validator_cache, request_vars,
                  idx, errors, prechecked, failed_guardrails, outcomes, inv, lookup,
                  resolved, unresolved, side_vars >>

\* The response has been sent (for a 400 or 500, by http_exception_handler); the
\* objects of the request are dropped and the process waits for the next one.
Answered ==
  /\ phase \in {"Rejected", "Completed", "InternalError"}
  /\ phase' = "Idle"
  /\ text' = ""
  /\ guardrails' = << >>
  /\ idx' = 0
  /\ errors' = << >>
  /\ prechecked' = << >>
  /\ failed_guardrails' = << >>
  /\ outcomes' = << >>
  /\ inv' = NoInvocation
  /\ lookup' = NoLookup
  /\ response' = NoResponse
  /\ UNCHANGED << hash_seed, catalog_vars, validator_cache, resolved, unresolved >>

\* A handler that runs a rejected request again.
RequestDone_retrying_rejected ==
  /\ phase \in {"Rejected", "Completed", "InternalError"}
  /\ phase' = IF phase = "Rejected" THEN "PreChecking" ELSE "Idle"
  /\ text' = IF phase = "Rejected" THEN text ELSE ""
  /\ guardrails' = IF phase = "Rejected" THEN guardrails ELSE << >>
  /\ idx' = IF phase = "Rejected" THEN 1 ELSE 0
  /\ errors' = << >>
  /\ prechecked' = << >>
  /\ failed_guardrails' = << >>
  /\ outcomes' = << >>
  /\ inv' = [constructs |-> 0, on_fail |-> "", executed |-> FALSE]
  /\ lookup' = [phase |-> "", idx |-> 0, name |-> "", result |-> None, calls |-> << >>]
  /\ response' = [status |-> 0]
  /\ UNCHANGED << hash_seed, hub_attrs, hub_modules, validator_cache, resolved, unresolved,
                  cfg_in, cfg_out, body, idem, lk, deadline_at >>

RequestDone ==
  /\ Answered
  /\ UNCHANGED side_vars

Next ==
  \/ InstallValidator
  \/ StartRequest
  \/ PreCheckStep
  \/ PreCheckDone
  \/ ExecStep
  \/ ValidateTextReturn
  \/ RequestDone

Spec == Init /\ [][Next]_vars

\* ------------------------------------- a hub whose import itself fails
\* importlib.import_module runs the code of the module it imports, and
\* _load_validator_class catches ImportError and AttributeError only: any
\* other exception of a hub module leaves _load_validator_class,
\* validate_guardrail_config and validate_all_configs, and reaches
\* `except Exception` of the handler.  Only a cache miss imports anything.
ImportRaised == [kind |-> "raised", class |-> "Exception"]

PreCheckRaises ==
  /\ phase = "PreChecking"
  /\ idx <= Len(guardrails)
  /\ guardrails[idx].name \notin DOMAIN validator_cache
  /\ lookup' = [phase |-> phase, idx |-> idx, name |-> guardrails[idx].name,
                result |-> ImportRaised, calls |-> << "guardrails.hub" >>]
  /\ phase' = "InternalError"
  /\ response' = handler_except(OtherException(ImportRaised))
  /\ UNCHANGED << hash_seed, catalog_vars, validator_cache, request_vars, idx,
                  errors, prechecked, failed_guardrails, outcomes, inv,
                  resolved, unresolved, side_vars >>

NextErr ==
  \/ Next
  \/ PreCheckRaises

SpecErr == Init /\ [][NextErr]_vars

\* ---------------------------------- the same request, submitted again
\* One (text, guardrails) pair is submitted over and over to a process whose
\* catalog does not change and whose validators behave the same way every time
\* they are given the same config and text.  The cache the first submission
\* finds holds any part of what the catalog resolves.
Resolution(attrs, modules, validator_name) ==
  _load_validator_class(NoFunction, attrs, modules, validator_name).result

WarmCaches(attrs, modules) ==
  LET resolvable == { n \in ReqNames : Resolution(attrs, modules, n) # None }
  IN  { [n \in S |-> Resolution(attrs, modules, n)] : S \in SUBSET resolvable }

\* One behaviour of a validator for each outcome an iteration can have: it
\* passes, it fails the text, it breaks while validating, or it cannot be
\* constructed.
IdemScripts ==
  { s \in Scripts : /\ s.guard = "ok"
                    /\ s.use \in {"ok", "-"}
                    /\ s.ctor = "ok" \/ s.retry \in InnerRaises }

InitIdem ==
  /\ hash_seed \in HashSeeds
  /\ hub_attrs \in HubAttrs
  /\ hub_modules \in SUBSET HubModules
  /\ validator_cache \in WarmCaches(hub_attrs, hub_modules)
  /\ phase = "Idle"
  /\ text = ""
  /\ guardrails = << >>
  /\ idx = 0
  /\ errors = << >>
  /\ prechecked = << >>
  /\ failed_guardrails = << >>
  /\ outcomes = << >>
  /\ inv = NoInvocation
  /\ lookup = NoLookup
  /\ resolved = validator_cache
  /\ unresolved = {}
  /\ response = NoResponse
  /\ cfg_in = NoCfg
  /\ cfg_out = NoCfg
  /\ body = NoBody
  /\ \E t \in Texts, g \in GuardrailLists :
       idem = [text |-> t, guardrails |-> g, behaviour |-> << >>,
               first |-> NoResponse, first_cache |-> validator_cache,
               cache_before |-> validator_cache]
  /\ lk = NoThreads
  /\ deadline_at = 0

Resubmit ==
  /\ Submit(idem.text, idem.guardrails)
  /\ idem' = [idem EXCEPT !.cache_before = validator_cache]
  /\ UNCHANGED << cfg_vars, body, lk, deadline_at >>

\* A validator given a config it has been given before does what it did then.
ExecStepStable ==
  /\ phase = "Executing"
  /\ idx <= Len(guardrails)
  /\ IF guardrails[idx] \in DOMAIN idem.behaviour
       THEN /\ Iterate(idem.behaviour[guardrails[idx]])
            /\ idem' = idem
       ELSE \E s \in IdemScripts :
              /\ Iterate(s)
              /\ idem' = [idem EXCEPT !.behaviour =
                            [c \in DOMAIN idem.behaviour \cup {guardrails[idx]} |->
                               IF c = guardrails[idx] THEN s ELSE idem.behaviour[c]]]
  /\ UNCHANGED << cfg_vars, body, lk, deadline_at >>

\* The response is sent; the first one is kept to compare the later ones with.
AnsweredAgain ==
  /\ Answered
  /\ idem' = IF idem.first = NoResponse THEN [idem EXCEPT !.first = response] ELSE idem
  /\ UNCHANGED << cfg_vars, body, lk, deadline_at >>

NextIdem ==
  \/ Resubmit
  \/ PreCheckStep
  \/ PreCheckDone
  \/ ExecStepStable
  \/ ValidateTextReturn
  \/ AnsweredAgain

SpecIdem == InitIdem /\ [][NextIdem]_vars

\* ------------------------------ one iteration of validate_text on its own
\* The process as in InitIdem, inside the loop of validate_text with one
\* guardrail_config that has its required parameters, the external calls
\* about to behave as one script says.
InitBody ==
  /\ hash_seed \in HashSeeds
  /\ hub_attrs \in HubAttrs
  /\ hub_modules \in SUBSET HubModules
  /\ validator_cache \in WarmCaches(hub_attrs, hub_modules)
  /\ phase = "Idle"
  /\ text = ""
  /\ guardrails = << >>
  /\ idx = 0
  /\ errors = << >>
  /\ prechecked = << >>
  /\ failed_guardrails = << >>
  /\ outcomes = << >>
  /\ inv = NoInvocation
  /\ lookup = NoLookup
  /\ resolved = validator_cache
  /\ unresolved = {}
  /\ response = NoResponse
  /\ cfg_in = NoCfg
  /\ cfg_out = NoCfg
  /\ \E g \in GuardrailConfig, s \in Scripts :
       /\ validate_config(hash_seed, g.name, g.config)[1]
       /\ body = [kind |-> "in", guardrail |-> g, script |-> s]
  /\ idem = NoIdem
  /\ lk = NoThreads
  /\ deadline_at = 0

CallLoopBody ==
  /\ body.kind = "in"
  /\ LET it == loop_body(validator_cache, hub_attrs, hub_modules, body.guardrail, body.script)
     IN  /\ body' = [kind |-> "out", guardrail |-> body.guardrail, script |-> body.script,
                      found |-> (it.L # None /\ it.L.result # None),
                      outcome |-> it.kind, entry |-> it.entry, inv |-> it.inv]
         /\ validator_cache' = IF it.L = None THEN validator_cache ELSE it.L.cache
  /\ UNCHANGED << hash_seed, catalog_vars, phase, request_vars, idx, errors, prechecked,
                  failed_guardrails, outcomes, inv, lookup, resolved, unresolved,
                  response, cfg_vars, idem, lk, deadline_at >>

NextBody == CallLoopBody

SpecBody == InitBody /\ [][NextBody]_vars

\* --------------------- _load_validator_class called by several threads
\* The singleton guardrail_validator shared by threads that each run
\* _load_validator_class, one statement at a time: the cache check, the lookup
\* in guardrails.hub, the lookup in the module, the store into the cache, the
\* return.  Nothing in the method locks the cache.  Validators may be
\* installed while the calls run.
Threads == 1..MaxThreads

NotCalling == [pc |-> "idle", name |-> "", found |-> None, result |-> None, stored |-> FALSE]

InitConc ==
  /\ hash_seed \in HashSeeds
  /\ hub_attrs \in HubAttrs
  /\ hub_modules = {}
  /\ validator_cache = NoFunction
  /\ phase = "Idle"
  /\ text = ""
  /\ guardrails = << >>
  /\ idx = 0
  /\ errors = << >>
  /\ prechecked = << >>
  /\ failed_guardrails = << >>
  /\ outcomes = << >>
  /\ inv = NoInvocation
  /\ lookup = NoLookup
  /\ resolved = NoFunction
  /\ unresolved = {}
  /\ response = NoResponse
  /\ cfg_in = NoCfg
  /\ cfg_out = NoCfg
  /\ body = NoBody
  /\ idem = NoIdem
  /\ lk = [t \in Threads |-> NotCalling]
  /\ deadline_at = 0

conc_unchanged ==
  << hash_seed, catalog_vars, phase, request_vars, idx, errors, prechecked,
     failed_guardrails, outcomes, inv, lookup, resolved, unresolved, response,
     cfg_vars, body, idem, deadline_at >>

\* self._load_validator_class(validator_name) is called.
ConcCall(t) ==
  /\ lk[t].pc = "idle"
  /\ \E n \in ReqNames : lk' = [lk EXCEPT ![t] = [NotCalling EXCEPT !.pc = "check", !.name = n]]
  /\ UNCHANGED << validator_cache, conc_unchanged >>

\* if validator_name in self.validator_cache: return self.validator_cache[validator_name]
ConcCheckCache(t) ==
  /\ lk[t].pc = "check"
  /\ lk' = [lk EXCEPT ![t] =
              IF lk[t].name \in DOMAIN validator_cache
                THEN [@ EXCEPT !.pc = "done", !.result = validator_cache[lk[t].name]]
                ELSE [@ EXCEPT !.pc = "hub"]]
  /\ UNCHANGED << validator_cache, conc_unchanged >>

\* validator_class = getattr(importlib.import_module("guardrails.hub"), validator_name, None)
ConcQueryHub(t) ==
  /\ lk[t].pc = "hub"
  /\ LET validator_class == getattr_hub(hub_attrs, lk[t].name)
     IN  lk' = [lk EXCEPT ![t] =
                 IF validator_class # None
                   THEN [@ EXCEPT !.pc = "store", !.found = validator_class]
                   ELSE [@ EXCEPT !.pc = "module"]]
  /\ UNCHANGED << validator_cache, conc_unchanged >>

\* A second lookup that stores whatever it got, None included.
ConcQueryModule_memoizing_miss(t) ==
  /\ lk[t].pc = "module"
  /\ IF << _camel_to_snake(NameChars[lk[t].name]), lk[t].name >> \in hub_modules
       THEN /\ lk' = [lk EXCEPT ![t] =
                        [@ EXCEPT !.pc = "store",
                                  !.found = [name |-> lk[t].name,
                                             module |-> << "guardrails.hub",
                                                           _camel_to_snake(NameChars[lk[t].name]) >>]]]
            /\ validator_cache' = validator_cache
       ELSE /\ lk' = [lk EXCEPT ![t] = [@ EXCEPT !.pc = "done"]]
            /\ validator_cache' =
                 [n \in DOMAIN validator_cache \cup {lk[t].name} |->
                    IF n = lk[t].name THEN None ELSE validator_cache[n]]
  /\ UNCHANGED conc_unchanged

\* validator_class = getattr(importlib.import_module(f"guardrails.hub.{module_name}"),
\* validator_name, None); `return None` when there is none.
ConcQueryModule(t) ==
  /\ lk[t].pc = "module"
  /\ LET module_name == _camel_to_snake(NameChars[lk[t].name])
         validator_class == getattr_module(hub_modules, module_name, lk[t].name)
     IN  lk' = [lk EXCEPT ![t] =
                 IF validator_class # None
                   THEN [@ EXCEPT !.pc = "store", !.found = validator_class]
                   ELSE [@ EXCEPT !.pc = "done", !.result = None]]
  /\ UNCHANGED << validator_cache, conc_unchanged >>

\* self.validator_cache[validator_name] = validator_class; return validator_class
ConcStore(t) ==
  /\ lk[t].pc = "store"
  /\ validator_cache' =
       [n \in DOMAIN validator_cache \cup {lk[t].name} |->
          IF n = lk[t].name THEN lk[t].found ELSE validator_cache[n]]
  /\ lk' = [lk EXCEPT ![t] = [@ EXCEPT !.pc = "done", !.result = lk[t].found, !.stored = TRUE]]
  /\ UNCHANGED conc_unchanged

\* The caller has the result; the thread is free for another call.
ConcReturn(t) ==
  /\ lk[t].pc = "done"
  /\ lk' = [lk EXCEPT ![t] = NotCalling]
  /\ UNCHANGED << validator_cache, conc_unchanged >>

NextConc ==
  \/ InstallValidator
  \/ \E t \in Threads : ConcCall(t)
  \/ \E t \in Threads : ConcCheckCache(t)
  \/ \E t \in Threads : ConcQueryHub(t)
  \/ \E t \in Threads : ConcQueryModule(t)
  \/ \E t \in Threads : ConcStore(t)
  \/ \E t \in Threads : ConcReturn(t)

SpecConc == InitConc /\ [][NextConc]_vars

\* ------------------------------------------- a deadline of the caller
\* validate_text takes the text and the guardrails and nothing else
\* (validators.py 93-97), and the handler passes nothing else (main.py
\* 123-126): a deadline the caller has for the request is a fact of the world
\* the code never reads.  deadline_at records the first position that had not
\* been started when that deadline passed (0 while it has not).
DeadlinePasses ==
  /\ phase = "Executing"
  /\ deadline_at = 0
  /\ deadline_at' = idx
  /\ UNCHANGED << hash_seed, catalog_vars, validator_cache, phase, request_vars, idx,
                  errors, prechecked, failed_guardrails, outcomes, inv, lookup,
                  resolved, unresolved, response, cfg_vars, body, idem, lk >>

RequestDoneDeadline ==
  /\ Answered
  /\ deadline_at' = 0
  /\ UNCHANGED << cfg_vars, body, idem, lk >>

NextDeadline ==
  \/ StartRequest
  \/ PreCheckStep
  \/ PreCheckDone
  \/ ExecStep
  \/ DeadlinePasses
  \/ ValidateTextReturn
  \/ RequestDoneDeadline

SpecDeadline == Init /\ [][NextDeadline]_vars

\* ----------------------------------- validate_config called on its own
\* Names, keys and values of the direct calls: every name of the table and the
\* names of the model it does not mention; values include the empty string.
CfgNames == DOMAIN REQUIRED_CONFIGS \cup ReqNames
CfgKeys == {"regex", "min", "max"}
CfgValues == {"a", ""}
CfgConfigs == ConfigsOver(CfgKeys, CfgValues)

\* The process as in Init, about to call validate_config(name, config).
InitCfg ==
  /\ hash_seed \in HashSeeds
  /\ hub_attrs \in HubAttrs
  /\ hub_modules = {}
  /\ validator_cache = NoFunction
  /\ phase = "Idle"
  /\ text = ""
  /\ guardrails = << >>
  /\ idx = 0
  /\ errors = << >>
  /\ prechecked = << >>
  /\ failed_guardrails = << >>
  /\ outcomes = << >>
  /\ inv = NoInvocation
  /\ lookup = NoLookup
  /\ resolved = NoFunction
  /\ unresolved = {}
  /\ response = NoResponse
  /\ cfg_in \in [name : CfgNames, config : CfgConfigs]
  /\ cfg_out = NoCfg
  /\ body = NoBody
  /\ idem = NoIdem
  /\ lk = NoThreads
  /\ deadline_at = 0

\* validator_config.validate_config(name, config)
CallValidateConfig ==
  /\ cfg_in # NoCfg
  /\ cfg_out = NoCfg
  /\ LET r == validate_config(hash_seed, cfg_in.name, cfg_in.config)
     IN  cfg_out' = [valid |-> r[1], msg |-> r[2]]
  /\ UNCHANGED << hash_seed, catalog_vars, validator_cache, phase, request_vars,
                  idx, errors, prechecked, failed_guardrails, outcomes, inv, lookup,
                  resolved, unresolved, response, cfg_in, body, idem, lk, deadline_at >>

NextCfg == CallValidateConfig

SpecCfg == InitCfg /\ [][NextCfg]_vars

\* ================================================================ claims
OutcomeKinds == {"Passed", "Failed", "NotFound", "ConstructionError", "UnexpectedError"}

\* The required keys a config does not supply, read off the static table.
MissingKeys(guardrail) ==
  (IF guardrail.name \in DOMAIN REQUIRED_CONFIGS
     THEN REQUIRED_CONFIGS[guardrail.name] ELSE {}) \ DOMAIN guardrail.config

\* Position i of the running request was pre-checked and its name did not resolve.
Unresolvable(i) == i <= Len(prechecked) /\ prechecked[i] = None

\* The elements of a sequence.
Range(seq) == { seq[i] : i \in DOMAIN seq }

RejectionListsEveryProblem ==
  phase = "Rejected" =>
    \A i \in DOMAIN guardrails :
      LET g == guardrails[i]
      IN  /\ Unresolvable(i) =>
               ConfigError(g.name, NotInstalledMsg(g.name)) \in Range(response.errors)
          /\ MissingKeys(g) # {} =>
               \E e \in Range(response.errors) :
                 /\ e.name = g.name
                 /\ e.msg.kind = "missing_required"
                 /\ Range(e.msg.keys) = MissingKeys(g)

\* C3 (no short-circuit in Phase 2): the iterations of validate_text recorded
\* so far are those of positions 1..idx-1, one each and in order, whatever
\* their outcomes, and the report is returned only when every position of the
\* list has had its iteration.
NoShortCircuit ==
  /\ phase \in {"Executing", "Completed"} =>
       /\ \A k \in DOMAIN outcomes :
            outcomes[k].pos = k /\ outcomes[k].name = guardrails[k].name
       /\ Len(outcomes) = idx - 1
  /\ phase = "Completed" => Len(outcomes) = Len(guardrails)

\* Witness of C3: a completed request whose first validator did not pass and
\* whose second validator was executed all the same.
NoShortCircuitWitness ==
  /\ phase = "Completed"
  /\ Len(outcomes) = 2
  /\ outcomes[1].kind = "UnexpectedError"
  /\ outcomes[2].kind = "Passed"
  /\ inv.executed

\* The positions of the request whose outcome is not Passed, in list order.
NotPassed == SelectSeq(outcomes, LAMBDA o : o.kind # "Passed")

\* C4 (report membership): the failures of a returned report hold, for every
\* name, as many entries as there are positions with that name whose outcome
\* is not Passed: one per such position and none for a validator that passed.
ReportMembership ==
  phase = "Completed" =>
    /\ Len(response.failed_guardrails) = Len(NotPassed)
    /\ \A n \in ReqNames :
         Cardinality({ k \in DOMAIN response.failed_guardrails :
                         response.failed_guardrails[k].name = n })
           = Cardinality({ i \in DOMAIN outcomes :
                             outcomes[i].name = n /\ outcomes[i].kind # "Passed" })

\* Witness of C4: one validator passes and one fails; the failures hold only
\* the failing one.
ReportMembershipWitness ==
  /\ phase = "Completed"
  /\ Len(outcomes) = 2
  /\ outcomes[1].kind = "Passed"
  /\ outcomes[2].kind = "Failed"
  /\ outcomes[1].name # outcomes[2].name
  /\ Len(response.failed_guardrails) = 1
  /\ response.failed_guardrails[1].name = outcomes[2].name

\* C5 (ordering): the names of the failures of a report are the names of the
\* positions that did not pass, in the order of the input list.
FailuresInInputOrder ==
  phase = "Completed" =>
    [k \in DOMAIN response.failed_guardrails |-> response.failed_guardrails[k].name]
      = [k \in DOMAIN NotPassed |-> guardrails[NotPassed[k].pos].name]

\* Witness of C5: two different validators fail, for different reasons.
FailuresInInputOrderWitness ==
  /\ phase = "Completed"
  /\ Len(response.failed_guardrails) = 2
  /\ response.failed_guardrails[1].name # response.failed_guardrails[2].name
  /\ outcomes[1].kind = "ConstructionError"
  /\ outcomes[2].kind = "Failed"

\* C6 (allPassed): in every ValidationResponse, passed is true exactly when
\* failed_guardrails is empty; when every validator passed, passed is true and
\* the list is empty.
PassedIffNoFailures ==
  response.status = HTTP_200_OK =>
    /\ response.passed <=> (Len(response.failed_guardrails) = 0)
    /\ (\A i \in DOMAIN outcomes : outcomes[i].kind = "Passed") =>
         response.passed /\ response.failed_guardrails = << >>

\* Witness of C6: a batch of two validators that both pass.
PassedIffNoFailuresWitness ==
  /\ response.status = HTTP_200_OK
  /\ Len(guardrails) = 2
  /\ response.passed
  /\ \A i \in DOMAIN outcomes : outcomes[i].kind = "Passed"

\* A step that calls _load_validator_class for name n.
LooksUp(n) == lookup' # lookup /\ lookup'.name = n

\* C7 (positive cache): once a lookup of a name has returned a class, every
\* later lookup of that name returns that same class and makes no catalog call.
PositiveCache ==
  [][\A n \in ReqNames :
       (n \in DOMAIN resolved /\ LooksUp(n))
         => (lookup'.result = resolved[n] /\ lookup'.calls = << >>)]_vars

\* Witness of C7: the first lookup of a request is answered from the cache,
\* which an earlier request filled.
PositiveCacheWitness ==
  /\ lookup.phase = "PreChecking"
  /\ lookup.idx = 1
  /\ lookup.name \in DOMAIN resolved
  /\ lookup.result = resolved[lookup.name]
  /\ lookup.calls = << >>

\* C8 (negative cache), as claimed: once a lookup of a name has returned
\* not-found, every later lookup of that name returns not-found and makes no
\* catalog call.
NegativeCache ==
  [][\A n \in ReqNames :
       (n \in unresolved /\ LooksUp(n))
         => (lookup'.result = None /\ lookup'.calls = << >>)]_vars

\* C9 (failure isolation): no exception leaves validate_text; every iteration
\* ends in one of the outcome values and a request that reached Phase 2 gets
\* its report.
FailureIsolation ==
  /\ phase # "InternalError"
  /\ response.status # HTTP_500_INTERNAL_SERVER_ERROR
  /\ \A k \in DOMAIN outcomes : outcomes[k].kind \in OutcomeKinds
  /\ phase = "Completed" =>
       /\ response.status = HTTP_200_OK
       /\ response.failed_guardrails = failed_guardrails

\* Witness of C9: a report is returned although one validator raised an
\* unexpected error and another one could not be constructed.
FailureIsolationWitness ==
  /\ phase = "Completed"
  /\ response.status = HTTP_200_OK
  /\ Len(outcomes) = 2
  /\ outcomes[1].kind = "UnexpectedError"
  /\ outcomes[2].kind = "ConstructionError"

\* C10 (Configuration Checker): validate_config(name, config) succeeds exactly
\* when the keys the table requires for the name (none for a name the table
\* does not mention) are all among the keys of config; when it fails, its
\* message lists each missing key once and nothing else.  Nothing but the table
\* and the keys enters the result.
ConfigCheckerResult ==
  cfg_out # NoCfg =>
    LET required == IF cfg_in.name \in DOMAIN REQUIRED_CONFIGS
                      THEN REQUIRED_CONFIGS[cfg_in.name] ELSE {}
        missing == required \ DOMAIN cfg_in.config
    IN  /\ cfg_out.valid <=> (required \subseteq DOMAIN cfg_in.config)
        /\ cfg_out.valid => cfg_out.msg = EmptyStr
        /\ ~cfg_out.valid =>
             /\ cfg_out.msg.kind = "missing_required"
             /\ Range(cfg_out.msg.keys) = missing
             /\ Len(cfg_out.msg.keys) = Cardinality(missing)

\* Witness of C10: a call that fails with two missing keys, for a name the hub
\* does not hold and a config that is not empty.
ConfigCheckerResultWitness ==
  /\ cfg_out # NoCfg
  /\ ~cfg_out.valid
  /\ Len(cfg_out.msg.keys) = 2
  /\ DOMAIN cfg_in.config # {}
  /\ cfg_in.name \notin hub_attrs

\* C11: the status of the response follows the phase the request ended in.  A
\* request that completed Phase 2 is answered 200 whether or not the text
\* passed; a request rejected in Phase 1 is answered 400 and carries the list
\* of problems, never a 500 or a 200; an error that left the core is answered
\* 500; and no response exists before the request has ended.
StatusMapping ==
  /\ phase \in {"Idle", "PreChecking", "Executing"} => response = NoResponse
  /\ phase = "Completed" =>
       /\ response.status = HTTP_200_OK
       /\ response.passed \in BOOLEAN
       /\ response.failed_guardrails = failed_guardrails
  /\ phase = "Rejected" =>
       /\ response.status = HTTP_400_BAD_REQUEST
       /\ response.errors = errors
       /\ errors # << >>
  /\ phase = "InternalError" =>
       /\ response.status = HTTP_500_INTERNAL_SERVER_ERROR
       /\ DOMAIN response = {"status", "message", "error"}

\* A hub import fails at the second position, after the first position has
\* already put a problem on the list: the answer is the 500, not the 400.
StatusMappingWitness ==
  /\ phase = "InternalError"
  /\ response.status = HTTP_500_INTERNAL_SERVER_ERROR
  /\ idx = 2
  /\ errors # << >>

\* C12: every submission of the same (text, guardrails) pair to a process with
\* a stable catalog and stable validators is answered as the first one was: the
\* same 400 with the same list of errors, or the same 200 with the same passed
\* flag and the same failures in the same order, whatever the cache held when
\* the submission arrived.
Idempotence ==
  (phase \in {"Rejected", "Completed", "InternalError"} /\ idem.first # NoResponse)
    => response = idem.first

\* A later submission of a two-entry request finds in the cache a class the
\* first submission did not find there, and reports the same two failures.
IdempotenceWitness ==
  /\ phase = "Completed"
  /\ idem.first # NoResponse
  /\ response = idem.first
  /\ Len(response.failed_guardrails) = 2
  /\ response.failed_guardrails[1] # response.failed_guardrails[2]
  /\ DOMAIN idem.first_cache = {}
  /\ DOMAIN idem.cache_before # {}
  /\ lookup.calls = << >>

\* The iteration found the class and its first constructor call raised for a
\* reason other than on_fail: either an exception that is not a TypeError, or
\* a TypeError that the call without on_fail raises again.
ConstructionRaised ==
  /\ body.kind = "out"
  /\ body.found
  /\ \/ body.script.ctor \in OuterRaises
     \/ body.script.ctor = "TypeError" /\ body.script.retry \in InnerRaises

\* C13: whenever constructing the validator raises for a reason other than an
\* unsupported on_fail, the outcome of the iteration is ConstructionError with
\* the entry "Error initializing validator: ...", and the validator is not
\* executed.
ConstructionErrorClassification ==
  ConstructionRaised =>
    /\ body.outcome = "ConstructionError"
    /\ body.entry.error.kind = "init_error"
    /\ ~body.inv.executed

\* The iteration found the class, the constructor rejected on_fail and the
\* call without on_fail returned an instance.
RetrySucceeded ==
  /\ body.kind = "out"
  /\ body.found
  /\ body.script.ctor = "TypeError"
  /\ body.script.retry = "ok"

\* C14: when the constructor rejects on_fail and the retry without it
\* succeeds, the class was constructed twice, on_fail is set on the instance
\* only if the instance has the attribute, no entry is recorded for a failure
\* to set it, and the outcome is the one the execution of the validator gives.
TolerancePath ==
  RetrySucceeded =>
    /\ body.inv.constructs = 2
    /\ body.inv.on_fail = OnFailAction_EXCEPTION => body.script.has_on_fail
    /\ body.outcome # "ConstructionError"
    /\ body.outcome = "Passed" <=>
         (body.script.use = "ok" /\ body.script.validate = "ok")
    /\ body.outcome = "Failed" <=>
         ("ValidationError" \in {body.script.use, body.script.validate})
    /\ body.outcome = "UnexpectedError" <=>
         ("Exception" \in {body.script.use, body.script.validate})

\* The phase changes a request can make.
PhaseChanges ==
  { << "Idle", "PreChecking" >>,
    << "PreChecking", "Rejected" >>, << "PreChecking", "Executing" >>,
    << "Executing", "Completed" >>,
    << "Rejected", "Idle" >>, << "Completed", "Idle" >> }

ResolutionOrder ==
  [][ \A n \in ReqNames :
        (LooksUp(n) /\ n \notin DOMAIN validator_cache) =>
          /\ Len(lookup'.calls) >= 1
          /\ lookup'.calls[1] = "guardrails.hub"
          /\ n \in hub_attrs =>
               /\ lookup'.calls = << "guardrails.hub" >>
               /\ lookup'.result = [name |-> n, module |-> << "guardrails.hub" >>]
          /\ n \notin hub_attrs =>
               /\ lookup'.calls = << "guardrails.hub", "guardrails.hub.module" >>
               /\ lookup'.result =
                    IF << ModuleFiles[n], n >> \in hub_modules
                      THEN [name |-> n, module |-> << "guardrails.hub", ModuleFiles[n] >>]
                      ELSE None
          /\ lookup'.result # None =>
               /\ n \in DOMAIN validator_cache'
               /\ validator_cache'[n] = lookup'.result
               /\ DOMAIN validator_cache' = DOMAIN validator_cache \cup {n}
          /\ lookup'.result = None =>
               /\ n \notin hub_attrs
               /\ << ModuleFiles[n], n >> \notin hub_modules
    ]_vars

\* ValidLength, which the hub does not export, was found in
\* guardrails.hub.valid_length by the second strategy and cached.
ResolutionOrderWitness ==
  /\ lookup.name = "ValidLength"
  /\ lookup.calls = << "guardrails.hub", "guardrails.hub.module" >>
  /\ lookup.result = [name |-> "ValidLength",
                      module |-> << "guardrails.hub",
                                    << "v", "a", "l", "i", "d", "_", "l", "e", "n", "g", "t", "h" >> >>]
  /\ "ValidLength" \in DOMAIN validator_cache
  /\ validator_cache["ValidLength"] = lookup.result

\* C17: with calls of _load_validator_class interleaved statement by
\* statement, an entry of the cache, once written, is never changed by a later
\* write (nor removed), and every call that returns a class returns the class
\* the cache holds for the name.
CacheConvergence ==
  [][ /\ \A n \in DOMAIN validator_cache :
           n \in DOMAIN validator_cache' /\ validator_cache'[n] = validator_cache[n]
      /\ \A t \in Threads :
           (lk'[t].pc = "done" /\ lk'[t].result # None) =>
             /\ lk'[t].name \in DOMAIN validator_cache'
             /\ validator_cache'[lk'[t].name] = lk'[t].result
    ]_vars

\* Two calls both missed the cache for the same name and both stored it.
CacheConvergenceWitness ==
  \E t, u \in Threads :
    /\ t # u
    /\ lk[t].pc = "done" /\ lk[u].pc = "done"
    /\ lk[t].name = lk[u].name
    /\ lk[t].stored /\ lk[u].stored
    /\ lk[t].result = lk[u].result
    /\ lk[t].result.module # << "guardrails.hub" >>

\* C18: once the deadline of the request has passed during Phase 2, no
\* validator that had not been started is started: every position from the
\* first unstarted one on has the outcome Timeout, and the report holds a
\* timeout failure for each of them after the outcomes of the earlier ones.
DeadlineHonoured ==
  deadline_at > 0 =>
    /\ \A i \in 1..Len(outcomes) :
         outcomes[i].pos >= deadline_at => outcomes[i].kind = "Timeout"
    /\ phase = "Completed" =>
         Len(failed_guardrails) >= Len(guardrails) - deadline_at + 1

\* C19: with requests handled one at a time, every lookup validate_text makes
\* for a request that passed the pre-check is a cache hit: it makes no catalog
\* call and returns the class the cache holds, every name of the request is
\* in the cache for the whole of Phase 2, and no position gets the outcome
\* NotFound.
PhaseTwoCacheHits ==
  /\ lookup.phase = "Executing" =>
       /\ lookup.calls = << >>
       /\ lookup.result # None
       /\ lookup.name \in DOMAIN validator_cache
       /\ lookup.result = validator_cache[lookup.name]
  /\ phase \in {"Executing", "Completed"} =>
       \A i \in 1..Len(guardrails) : guardrails[i].name \in DOMAIN validator_cache
  /\ \A i \in 1..Len(outcomes) : outcomes[i].kind # "NotFound"

\* The second position of a request in Phase 2 has just been looked up: a hit.
PhaseTwoCacheHitsWitness ==
  /\ phase = "Executing"
  /\ lookup.phase = "Executing"
  /\ lookup.idx = 2
  /\ lookup.calls = << >>
  /\ Len(outcomes) = 2

\* C20: the cache only grows and holds only what the catalog resolved: no
\* step removes an entry or changes its value; every entry under a name n is
\* the class guardrails.hub exports as n or the class its module
\* guardrails.hub.<snake_case of n> defines as n; and a lookup that returns
\* None leaves no entry for the name.
CacheOnlyGrows ==
  [][ /\ \A n \in DOMAIN validator_cache :
           n \in DOMAIN validator_cache' /\ validator_cache'[n] = validator_cache[n]
      /\ \A n \in DOMAIN validator_cache' :
           \/ /\ n \in hub_attrs'
              /\ validator_cache'[n] = [name |-> n, module |-> << "guardrails.hub" >>]
           \/ /\ << ModuleFiles[n], n >> \in hub_modules'
              /\ validator_cache'[n] =
                   [name |-> n, module |-> << "guardrails.hub", ModuleFiles[n] >>]
      /\ \A n \in ReqNames :
           (LooksUp(n) /\ lookup'.result = None) => n \notin DOMAIN validator_cache'
    ]_vars

\* A request was rejected for a name that does not resolve, after an earlier
\* request had put the other name in the cache: that entry is still there and
\* the unresolvable name has none.
CacheOnlyGrowsWitness ==
  /\ phase = "Rejected"
  /\ lookup.result = None
  /\ lookup.name \notin DOMAIN validator_cache
  /\ DOMAIN validator_cache # {}
  /\ \A i \in 1..Len(guardrails) : guardrails[i].name = lookup.name

\* The pre-checked positions of the running request that have a problem (the
\* name did not resolve or a required key is missing), in list order.
ProblemPositions ==
  SelectSeq([i \in 1..Len(prechecked) |-> i],
            LAMBDA i : prechecked[i] = None \/ MissingKeys(guardrails[i]) # {})

\* C21: the error list of validate_all_configs holds one entry for each
\* pre-checked position that has a problem and none for any other position,
\* each entry carries the name of the config of its position, and the entries
\* are in the order of those positions; and the handler goes on to
\* validate_text exactly when the list is empty.
ErrorListShape ==
  /\ Len(errors) = Len(ProblemPositions)
  /\ Len(errors) <= Len(prechecked)
  /\ \A j \in 1..Len(errors) :
       /\ DOMAIN errors[j] = {"name", "msg"}
       /\ errors[j].name = guardrails[ProblemPositions[j]].name
  /\ phase \in {"Executing", "Completed"} => errors = << >>
  /\ phase = "Rejected" => errors # << >>

\* A request was rejected with two entries, for two configs of different
\* names, the first for the config that lacks its keys.
ErrorListShapeWitness ==
  /\ phase = "Rejected"
  /\ Len(errors) = 2
  /\ errors[1].name # errors[2].name
  /\ MissingKeys(guardrails[1]) # {}
  /\ prechecked[1] # None
  /\ prechecked[2] = None

====
